---- MODULE Spec2Model ----
(***************************************************************************)
(* A model of DeepSeekFormatter (src/src/formatter.js): the run of         *)
(* formatAll over an exported conversation array, and its pure helpers     *)
(* (sortConversationsByDate, extractMessages, the labelling loop of        *)
(* generateHTML, the file-name construction).                              *)
(*                                                                         *)
(* Strings are sequences of one-character strings, so that padStart,       *)
(* sanitizeFilename and template concatenation are computed and not        *)
(* assumed.                                                                *)
(***************************************************************************)
EXTENDS Integers, Sequences, FiniteSets, TLC

\* ------------------------------------------------------------- bounds
\* longest conversation array given to sortConversationsByDate
MaxConvs == 3
\* longest children list of a mapping node
MaxChildren == 2
\* extractMessages is followed until it has collected this many messages
MaxCollected == 4
\* most fragments of the conversation given to generateHTML
MaxFragments == 4
\* longest conversation array of a run of formatAll
MaxRun == 2
\* longest free part at either end of a title given to sanitizeFilename
MaxTitle == 2
\* most tokens of a content string given to formatContent
MaxContent == 3

\* ---------------------------------------------------------- constants
\* sanitizeFilename: substring(0, 50)
MaxSlug == 50
\* padStart(3, '0')
PadWidth == 3
\* parseable timestamps are 1..MaxTime (getTime() values)
MaxTime == 2

VARIABLES
    pc,             \* position of the code being run
    arg,            \* the argument of the helper under study (unit specifications)
    ret,            \* its return value
    currentId,      \* extractMessages' local currentId
    messages,       \* extractMessages' local messages
    input,          \* the input file of a run
    conversations,  \* formatAll's local array, after the sort
    i,              \* formatAll's loop index
    stats,          \* this.stats
    dirCreated,     \* the output directory exists
    files,          \* per processed conversation: the file processConversation wrote
    summary,        \* summary.json, once written
    indexHtml,      \* index.html, once written
    exitCode        \* process exit code, -1 while running

vars == <<pc, arg, ret, currentId, messages, input, conversations, i, stats, dirCreated, files,
          summary, indexHtml, exitCode>>

\* ------------------------------------------------------------ strings
DigitChar(d) == <<"0", "1", "2", "3", "4", "5", "6", "7", "8", "9">>[d + 1]

\* Number.prototype.toString() of a non-negative integer
RECURSIVE NumToString(_)
NumToString(n) ==
    IF n < 10 THEN <<DigitChar(n)>>
    ELSE NumToString(n \div 10) \o <<DigitChar(n % 10)>>

\* String.prototype.padStart(targetLength, padChar)
RECURSIVE padStart(_, _, _)
padStart(s, targetLength, ch) ==
    IF Len(s) >= targetLength THEN s ELSE padStart(<<ch>> \o s, targetLength, ch)

\* -------------------------------------------------------------- dates
\* A date field of the JSON input is
\*   "absent"  : null, undefined, "" or 0 (falsy),
\*   "invalid" : a non-empty string that new Date() cannot parse (getTime() is NaN),
\*   "object"  : an object without a usable toString ({"toString": 1});
\*               new Date(x) and String(x) throw a TypeError,
\*   "time"    : a parseable timestamp, getTime() = t.
Absent == [k |-> "absent", t |-> 0]
InvalidDate == [k |-> "invalid", t |-> 0]
ObjectDate == [k |-> "object", t |-> 0]
At(t) == [k |-> "time", t |-> t]

Truthy(d) == d.k # "absent"

\* a || b
OrElse(a, b) == IF Truthy(a) THEN a ELSE b

\* conversation.updated_at || conversation.inserted_at
DateOf(conv) == OrElse(conv.updated_at, conv.inserted_at)

\* --------------------------------------------- sortConversationsByDate
NaN == [nan |-> TRUE, v |-> 0]
Num(n) == [nan |-> FALSE, v |-> n]

\* the comparator with the dated/undated branches exchanged
comparefnUndatedFirst(a, b) ==
    LET dateA == DateOf(a)
        dateB == DateOf(b)
    IN  IF ~Truthy(dateA) /\ ~Truthy(dateB) THEN Num(0)
        ELSE IF ~Truthy(dateA) THEN Num(-1)
        ELSE IF ~Truthy(dateB) THEN Num(1)
        ELSE IF dateA.k = "object" \/ dateB.k = "object" THEN Num(0)
        ELSE IF dateA.k = "invalid" \/ dateB.k = "invalid" THEN NaN
        ELSE Num(dateB.t - dateA.t)

\* the arrow function given to Array.prototype.sort
comparefn(a, b) ==
    LET dateA == DateOf(a)
        dateB == DateOf(b)
    IN  IF ~Truthy(dateA) /\ ~Truthy(dateB) THEN Num(0)
        ELSE IF ~Truthy(dateA) THEN Num(1)
        ELSE IF ~Truthy(dateB) THEN Num(-1)
        \* new Date(object) throws: catch { return 0 }
        ELSE IF dateA.k = "object" \/ dateB.k = "object" THEN Num(0)
        \* new Date(unparseable).getTime() is NaN, and so is the difference
        ELSE IF dateA.k = "invalid" \/ dateB.k = "invalid" THEN NaN
        ELSE Num(dateB.t - dateA.t)

\* Array.prototype.sort reads the comparator's result as a number; NaN counts as +0
SortCompare(a, b) ==
    LET v == comparefn(a, b) IN IF v.nan THEN 0 ELSE v.v

\* Array.prototype.sort, as the Node runtime runs it on an array shorter than
\* its minimum run length: the leading run is found (and reversed when strictly
\* descending), then every later element is placed by binary insertion.  With a
\* consistent comparator the result is the one stable order ECMAScript
\* requires; with an inconsistent one ECMAScript leaves the order to the
\* implementation, and this is the implementation's.  w is the work array, a
\* permutation of the positions of arr.
RECURSIVE RunLength(_, _, _, _)
RunLength(arr, w, isDescending, idx) ==
    IF idx > Len(w) THEN idx - 1
    ELSE LET order == SortCompare(arr[w[idx]], arr[w[idx - 1]])
         IN  IF (isDescending /\ order >= 0) \/ (~isDescending /\ order < 0)
             THEN idx - 1
             ELSE RunLength(arr, w, isDescending, idx + 1)

ReverseRange(w, n) ==
    [k \in 1..Len(w) |-> IF k <= n THEN w[n + 1 - k] ELSE w[k]]

RECURSIVE BinarySearch(_, _, _, _, _)
BinarySearch(arr, w, pivot, left, right) ==
    IF left >= right THEN left
    ELSE LET mid == left + ((right - left) \div 2)
         IN  IF SortCompare(arr[pivot], arr[w[mid]]) < 0
             THEN BinarySearch(arr, w, pivot, left, mid)
             ELSE BinarySearch(arr, w, pivot, mid + 1, right)

RECURSIVE BinaryInsertionSort(_, _, _)
BinaryInsertionSort(arr, w, start) ==
    IF start > Len(w) THEN w
    ELSE LET pivot == w[start]
             left == BinarySearch(arr, w, pivot, 1, start)
             moved == SubSeq(w, 1, left - 1) \o <<pivot>>
                      \o SubSeq(w, left, start - 1)
                      \o SubSeq(w, start + 1, Len(w))
         IN  BinaryInsertionSort(arr, moved, start + 1)

\* the positions of arr in sorted order
ArraySort(arr) ==
    LET w0 == [k \in 1..Len(arr) |-> k]
    IN  IF Len(arr) < 2 THEN w0
        ELSE LET isDescending == SortCompare(arr[2], arr[1]) < 0
                 runLength == RunLength(arr, w0, isDescending, 3)
                 w1 == IF isDescending THEN ReverseRange(w0, runLength) ELSE w0
             IN  BinaryInsertionSort(arr, w1, runLength + 1)

\* sortConversationsByDate(conversations): order is the permutation applied,
\* array the sorted array (the same array object, sorted in place)
sortConversationsByDate(arr) ==
    LET order == ArraySort(arr)
    IN  [order |-> order, array |-> [k \in 1..Len(arr) |-> arr[order[k]]]]

\* ------------------------------------------------------ conversations
\* mapping: "null" (null or undefined), "nonobject" (a truthy primitive) or
\* "object" with nodes, a function from node ids to nodes
NullMapping == [kind |-> "null", nodes |-> <<>>]

Conversation(id, title, inserted_at, updated_at, mapping) ==
    [id |-> id, title |-> title, inserted_at |-> inserted_at,
     updated_at |-> updated_at, mapping |-> mapping]

Times == {At(t) : t \in 1..MaxTime}
DateValues == {Absent, InvalidDate, ObjectDate} \cup Times

\* <<updated_at, inserted_at>> pairs: every value of the date the code reads,
\* with the fallback to inserted_at and an inserted_at that updated_at hides
DatePairs ==
    {<<Absent, d>> : d \in DateValues}
    \cup {<<d, e>> : d \in DateValues \ {Absent}, e \in {Absent, At(1)}}

SeqsUpTo(S, n) == UNION {[1..k -> S] : k \in 0..n}

\* ----------------------------------------------------- extractMessages
\* node ids are non-empty strings; NoId is the undefined / null that
\* mapping.root?.children?.[0] and the loop's last assignment produce
NoId == ""
Ids == {"root", "a", "b"}

Fragment(type, content) == [type |-> type, content |-> content]
Message(inserted_at, fragments) == [inserted_at |-> inserted_at, fragments |-> fragments]
\* node.message is <<>> when null or missing, <<m>> otherwise
Node(message, children) == [message |-> message, children |-> children]

NonObjectMapping == [kind |-> "nonobject", nodes |-> <<>>]
ObjectMapping(nodes) == [kind |-> "object", nodes |-> nodes]

\* !mapping || typeof mapping !== 'object'
InvalidMapping(mapping) == mapping.kind # "object"

\* node.children && node.children.length > 0 ? node.children[0] : null,
\* taking the last child instead
LastChild(node) ==
    IF Len(node.children) > 0 THEN node.children[Len(node.children)] ELSE NoId

\* node.children && node.children.length > 0 ? node.children[0] : null
FirstChild(node) ==
    IF Len(node.children) > 0 THEN node.children[1] ELSE NoId

\* mapping.root?.children?.[0]
StartId(nodes) ==
    IF "root" \in DOMAIN nodes /\ Len(nodes["root"].children) > 0
    THEN nodes["root"].children[1]
    ELSE NoId

\* the function's entry without its guard, optional chaining and try block:
\* reading .root of null, or .children of a missing root, raises
extractEnterUnguarded(mapping) ==
    IF InvalidMapping(mapping) \/ "root" \notin DOMAIN mapping.nodes
    THEN [returns |-> TRUE, raised |-> TRUE, currentId |-> NoId]
    ELSE [returns |-> FALSE, raised |-> FALSE, currentId |-> StartId(mapping.nodes)]

\* lines 235-243: the early return on an invalid mapping, else the first id
extractEnter(mapping) ==
    IF InvalidMapping(mapping)
    THEN [returns |-> TRUE, raised |-> FALSE, currentId |-> NoId]
    ELSE [returns |-> FALSE, raised |-> FALSE, currentId |-> StartId(mapping.nodes)]

\* while (currentId && mapping[currentId])
LoopCondition(nodes, id) == id # NoId /\ id \in DOMAIN nodes

\* if (node && node.message) messages.push(node.message)
Pushed(msgs, node) == msgs \o node.message

\* the loop run to its end; fuel counts the nodes not yet visited, and a walk
\* that outlasts it revisits a node and never ends
RECURSIVE Walk(_, _, _, _)
Walk(nodes, id, msgs, fuel) ==
    IF ~LoopCondition(nodes, id)
    THEN [terminates |-> TRUE, raised |-> FALSE, messages |-> msgs]
    ELSE IF fuel = 0 THEN [terminates |-> FALSE, raised |-> FALSE, messages |-> <<>>]
    ELSE Walk(nodes, FirstChild(nodes[id]), Pushed(msgs, nodes[id]), fuel - 1)

\* extractMessages(mapping) as a value, for its callers
extractMessages(mapping) ==
    LET e == extractEnter(mapping)
    IN  IF e.returns THEN [terminates |-> TRUE, raised |-> e.raised, messages |-> <<>>]
        ELSE Walk(mapping.nodes, e.currentId, <<>>, Cardinality(DOMAIN mapping.nodes))

\* -------------------------------------------------------- generateHTML
RequestWord == <<"R", "e", "q", "u", "e", "s", "t">>
ResponseWord == <<"R", "e", "s", "p", "o", "n", "s", "e">>

\* isRequest ? `Request ${messageNumber}` : `Response ${messageNumber}`
headerText(isRequest, messageNumber) ==
    (IF isRequest THEN RequestWord ELSE ResponseWord)
        \o <<" ">> \o NumToString(messageNumber)

\* the counter incremented after every rendered fragment
nextMessageNumberAlways(isRequest, messageNumber) == messageNumber + 1

\* if (isRequest) messageNumber++
nextMessageNumber(isRequest, messageNumber) ==
    IF isRequest THEN messageNumber + 1 ELSE messageNumber

\* fragment && fragment.type && fragment.content
Rendered(fragment) == fragment.type # "" /\ fragment.content # <<>>

\* the fragments the two nested loops visit, each with its message's inserted_at
RECURSIVE FragmentsOf(_)
FragmentsOf(msgs) ==
    IF msgs = <<>> THEN <<>>
    ELSE [k \in 1..Len(Head(msgs).fragments) |->
              [fragment |-> Head(msgs).fragments[k], at |-> Head(msgs).inserted_at]]
         \o FragmentsOf(Tail(msgs))

\* lines 185-211: the blocks appended to htmlContent; safeString of a message's
\* inserted_at that is an object throws
RECURSIVE renderLoop(_, _, _)
renderLoop(items, messageNumber, blocks) ==
    IF items = <<>> THEN [threw |-> FALSE, blocks |-> blocks]
    ELSE LET it == Head(items)
             isRequest == it.fragment.type = "REQUEST"
         IN  IF ~Rendered(it.fragment)
             THEN renderLoop(Tail(items), messageNumber, blocks)
             ELSE IF it.at.k = "object" THEN [threw |-> TRUE, blocks |-> <<>>]
             ELSE renderLoop(Tail(items),
                             nextMessageNumber(isRequest, messageNumber),
                             Append(blocks,
                                    [class |-> IF isRequest THEN "request" ELSE "response",
                                     headerText |-> headerText(isRequest, messageNumber)]))

\* generateHTML(conversation, fileNumber): the document returned, a page or the
\* error page of the catch block; counted is what it adds to stats.totalMessages;
\* hangs when extractMessages does not return
generateHTML(conversation, fileNumber) ==
    LET x == extractMessages(conversation.mapping)
        r == renderLoop(FragmentsOf(x.messages), 1, <<>>)
    IN  IF ~x.terminates
        THEN [kind |-> "hang", blocks |-> <<>>, total |-> 0, counted |-> 0]
        \* an exception out of line 146 lands in the catch block
        ELSE IF x.raised
        THEN [kind |-> "error", blocks |-> <<>>, total |-> 0, counted |-> 0]
        \* lines 152-153: safeString of an object date throws
        ELSE IF conversation.inserted_at.k = "object"
                \/ conversation.updated_at.k = "object"
                \/ r.threw
        THEN [kind |-> "error", blocks |-> <<>>, total |-> 0,
              counted |-> Len(x.messages)]
        ELSE [kind |-> "page", blocks |-> r.blocks, total |-> Len(x.messages),
              counted |-> Len(x.messages)]

\* ---------------------------------------------------------- file names
\* format(date, 'yyyy-MM-dd'): the timestamps of the model are one per day,
\* t being the t-th of January 2024
formatDay(t) ==
    <<"2", "0", "2", "4", "-", "0", "1", "-">> \o padStart(NumToString(t), 2, "0")

NoDateWord == <<"n", "o", "d", "a", "t", "e">>

\* getDatePrefix(conversation): 'nodate' without a date, and from the catch
\* block when new Date() throws (an object) or format() rejects an Invalid Date
getDatePrefix(conversation) ==
    LET dateStr == DateOf(conversation)
    IN  IF dateStr.k = "time" THEN formatDay(dateStr.t) ELSE NoDateWord

ReservedChars == {"<", ">", ":", "\"", "/", "\\", "|", "?", "*"}
WhitespaceChars == {" ", "\t", "\n"}

\* .replace(/[<>:"/\\|?*]/g, '_')
ReplaceReserved(s) == [k \in 1..Len(s) |-> IF s[k] \in ReservedChars THEN "_" ELSE s[k]]

\* .replace(/\s+/g, '_'): every maximal run of whitespace becomes one underscore
RECURSIVE ReplaceWhitespaceRuns(_)
ReplaceWhitespaceRuns(s) ==
    IF s = <<>> THEN <<>>
    ELSE IF Head(s) \in WhitespaceChars
         THEN IF Len(s) > 1 /\ s[2] \in WhitespaceChars
              THEN ReplaceWhitespaceRuns(Tail(s))
              ELSE <<"_">> \o ReplaceWhitespaceRuns(Tail(s))
         ELSE <<Head(s)>> \o ReplaceWhitespaceRuns(Tail(s))

\* .substring(0, end) left out
SubstringNone(s, end) == s

\* .substring(0, end)
Substring0(s, end) == SubSeq(s, 1, IF Len(s) < end THEN Len(s) ELSE end)

\* .trim()
RECURSIVE TrimStart(_)
TrimStart(s) ==
    IF s # <<>> /\ Head(s) \in WhitespaceChars THEN TrimStart(Tail(s)) ELSE s

RECURSIVE TrimEnd(_)
TrimEnd(s) ==
    IF s # <<>> /\ s[Len(s)] \in WhitespaceChars
    THEN TrimEnd(SubSeq(s, 1, Len(s) - 1)) ELSE s

Trim(s) == TrimEnd(TrimStart(s))

UntitledWord == <<"u", "n", "t", "i", "t", "l", "e", "d">>

\* sanitizeFilename(filename), of a string; '' is the falsy filename
sanitizeFilename(filename) ==
    IF filename = <<>> THEN UntitledWord
    ELSE Trim(Substring0(ReplaceWhitespaceRuns(ReplaceReserved(filename)), MaxSlug))

ConversationDash == <<"c", "o", "n", "v", "e", "r", "s", "a", "t", "i", "o", "n", "-">>
DotHtml == <<".", "h", "t", "m", "l">>

\* (index + 1).toString().padStart(3, '0')
fileNumberOf(index) == padStart(NumToString(index + 1), PadWidth, "0")

\* value || fallback, of strings
StringOr(value, fallback) == IF value # <<>> THEN value ELSE fallback

\* processConversation, lines 101-107: the name of the file it writes
writtenFileName(conversation, index) ==
    LET fileNumber == fileNumberOf(index)
        datePrefix == getDatePrefix(conversation)
        safeTitle == sanitizeFilename(
                         StringOr(conversation.title, ConversationDash \o fileNumber))
    IN  datePrefix \o <<"-">> \o fileNumber \o <<"-">> \o safeTitle \o DotHtml

\* generateSummary line 454 and generateIndexHTML line 516: the name they record
listedFileName(conv, idx) ==
    getDatePrefix(conv) \o <<"-">> \o padStart(NumToString(idx + 1), PadWidth, "0")
        \o <<"-">>
        \o sanitizeFilename(StringOr(conv.title, ConversationDash \o NumToString(idx + 1)))
        \o DotHtml

\* ------------------------------------------------ values of idle state
NoStats == [totalConversations |-> 0, totalMessages |-> 0,
            processedFiles |-> 0, errors |-> 0]
NoInput == [kind |-> "none", convs |-> <<>>, verbose |-> FALSE]
NoSummary == [written |-> FALSE, totalConversations |-> 0, totalMessages |-> 0,
              processedFiles |-> 0, errors |-> 0, conversations |-> <<>>]
NoIndex == [written |-> FALSE, rows |-> <<>>]
NoRet == [order |-> <<>>, array |-> <<>>]

RunIdle ==
    /\ currentId = NoId
    /\ messages = <<>>
    /\ input = NoInput
    /\ conversations = <<>>
    /\ i = 0
    /\ stats = NoStats
    /\ dirCreated = FALSE
    /\ files = <<>>
    /\ summary = NoSummary
    /\ indexHtml = NoIndex
    /\ exitCode = -1

runVars == <<currentId, messages, input, conversations, i, stats, dirCreated, files, summary,
             indexHtml, exitCode>>

\* ------------------------------------ sortConversationsByDate, alone
SortPool == {Conversation(<<"c">>, <<"t">>, p[2], p[1], NullMapping) : p \in DatePairs}

SortInit ==
    /\ pc = "sort"
    /\ arg \in SeqsUpTo(SortPool, MaxConvs)
    /\ ret = NoRet
    /\ RunIdle

SortCall ==
    /\ pc = "sort"
    /\ ret' = sortConversationsByDate(arg)
    /\ pc' = "sorted"
    /\ UNCHANGED <<arg, runVars>>

SortNext == SortCall

SpecSort == SortInit /\ [][SortNext]_vars

Positions == 1..Len(ret.array)
ParsedAt(p) == DateOf(ret.array[p]).k = "time"
DatedAt(p) == Truthy(DateOf(ret.array[p]))

\* C4: of two conversations with a defined date, the one with the later date
\* comes first in the order sortConversationsByDate produces.
C4_LaterFirst ==
    pc = "sorted" =>
        \A p, q \in Positions :
            (ParsedAt(p) /\ ParsedAt(q)
             /\ DateOf(ret.array[p]).t > DateOf(ret.array[q]).t) => p < q

\* The same order does hold when every defined date of the array parses.
LaterFirstWhenAllParse ==
    (pc = "sorted" /\ \A p \in Positions : DatedAt(p) => ParsedAt(p)) =>
        \A p, q \in Positions :
            (ParsedAt(p) /\ ParsedAt(q)
             /\ DateOf(ret.array[p]).t > DateOf(ret.array[q]).t) => p < q

\* C5: conversations with neither updated_at nor inserted_at come after every
\* dated conversation, and keep their original relative order.
C5_UndatedLast ==
    pc = "sorted" =>
        /\ \A p, q \in Positions : (~DatedAt(p) /\ DatedAt(q)) => q < p
        /\ \A p, q \in Positions :
               (~DatedAt(p) /\ ~DatedAt(q) /\ p < q) => ret.order[p] < ret.order[q]

\* an undated conversation stood before a dated one, and there are two undated
C5_Witness ==
    /\ pc = "sorted"
    /\ \E p, q \in 1..Len(arg) :
           p < q /\ ~Truthy(DateOf(arg[p])) /\ Truthy(DateOf(arg[q]))
    /\ \E p, q \in 1..Len(arg) : p < q /\ ~Truthy(DateOf(arg[p])) /\ ~Truthy(DateOf(arg[q]))

\* ------------------------------------------------ extractMessages, alone
DistinctSeqs(S, n) ==
    {q \in SeqsUpTo(S, n) : \A x, y \in 1..Len(q) : x # y => q[x] # q[y]}

\* the message of node id: its one fragment carries the id
MessageOf(id) == Message(At(1), <<Fragment("REQUEST", <<id>>)>>)

NodesOf(id) ==
    {Node(m, c) : m \in {<<>>, <<MessageOf(id)>>}, c \in DistinctSeqs(Ids, MaxChildren)}

\* a node id is missing (<<>>) or bound to one of its nodes (<<node>>)
EntryOf(id) == {<<>>} \cup {<<n>> : n \in NodesOf(id)}

NodeMap(r, a, b) ==
    LET sel == [id \in Ids |-> CASE id = "root" -> r [] id = "a" -> a [] OTHER -> b]
    IN  [id \in {x \in Ids : sel[x] # <<>>} |-> sel[id][1]]

\* every node map over Ids
WellFormedMaps ==
    {NodeMap(r, a, b) : r \in EntryOf("root"), a \in EntryOf("a"), b \in EntryOf("b")}

ExtractPool ==
    {NullMapping, NonObjectMapping} \cup {ObjectMapping(nodes) : nodes \in WellFormedMaps}

NoExtractRet == [raised |-> FALSE, messages |-> <<>>]

ExtractIdle ==
    /\ input = NoInput
    /\ conversations = <<>>
    /\ i = 0
    /\ stats = NoStats
    /\ dirCreated = FALSE
    /\ files = <<>>
    /\ summary = NoSummary
    /\ indexHtml = NoIndex
    /\ exitCode = -1

extractIdleVars == <<input, conversations, i, stats, dirCreated, files, summary,
                     indexHtml, exitCode>>

ExtractInit ==
    /\ pc = "extract"
    /\ arg \in ExtractPool
    /\ ret = NoExtractRet
    /\ currentId = NoId
    /\ messages = <<>>
    /\ ExtractIdle

\* lines 235-243
ExtractEnter ==
    /\ pc = "extract"
    /\ LET e == extractEnter(arg)
       IN  /\ currentId' = e.currentId
           /\ IF e.returns
              THEN /\ pc' = "extracted"
                   /\ ret' = [raised |-> e.raised, messages |-> messages]
              ELSE /\ pc' = "extract_loop"
                   /\ ret' = ret
    /\ UNCHANGED <<arg, messages, extractIdleVars>>

\* lines 245-251, one iteration
ExtractIterate ==
    /\ pc = "extract_loop"
    /\ LoopCondition(arg.nodes, currentId)
    /\ Len(messages) < MaxCollected
    /\ messages' = Pushed(messages, arg.nodes[currentId])
    /\ currentId' = FirstChild(arg.nodes[currentId])
    /\ UNCHANGED <<pc, arg, ret, extractIdleVars>>

\* line 256
ExtractReturn ==
    /\ pc = "extract_loop"
    /\ ~LoopCondition(arg.nodes, currentId)
    /\ ret' = [raised |-> FALSE, messages |-> messages]
    /\ pc' = "extracted"
    /\ UNCHANGED <<arg, currentId, messages, extractIdleVars>>

ExtractNext == ExtractEnter \/ ExtractIterate \/ ExtractReturn

SpecExtract == ExtractInit /\ [][ExtractNext]_vars

\* path is the first-child chain of the mapping: it starts at the first child
\* of root, each id has an entry, each next id is the first child of the one
\* before, and it ends at a node without children or whose first child has no entry
IsFirstChildPath(nodes, path) ==
    /\ \A k \in 1..Len(path) : path[k] \in DOMAIN nodes
    /\ IF "root" \in DOMAIN nodes /\ nodes["root"].children # <<>>
       THEN IF nodes["root"].children[1] \in DOMAIN nodes
            THEN path # <<>> /\ path[1] = nodes["root"].children[1]
            ELSE path = <<>>
       ELSE path = <<>>
    /\ \A k \in 1..(Len(path) - 1) :
           /\ nodes[path[k]].children # <<>>
           /\ path[k + 1] = nodes[path[k]].children[1]
    /\ path # <<>> =>
           \/ nodes[path[Len(path)]].children = <<>>
           \/ nodes[path[Len(path)]].children[1] \notin DOMAIN nodes

RECURSIVE MessagesAlong(_, _)
MessagesAlong(nodes, path) ==
    IF path = <<>> THEN <<>>
    ELSE nodes[Head(path)].message \o MessagesAlong(nodes, Tail(path))

\* C7: the result is, in path order, exactly the messages of the nodes on the
\* first-child chain from mapping.root.children[0]; nodes without a message
\* add nothing and no other sibling is visited.
C7_FirstChildPath ==
    (pc = "extracted" /\ arg.kind = "object") =>
        \E path \in SeqsUpTo(Ids, Cardinality(Ids)) :
            /\ IsFirstChildPath(arg.nodes, path)
            /\ ret.messages = MessagesAlong(arg.nodes, path)

\* root -> a (message, children [b, root]) -> b (message): both messages, in order
C7_Witness ==
    /\ pc = "extracted"
    /\ arg.kind = "object"
    /\ DOMAIN arg.nodes = Ids
    /\ arg.nodes["root"].children = <<"a">>
    /\ arg.nodes["a"].children = <<"b", "root">>
    /\ arg.nodes["b"].children = <<>>
    /\ ret.messages = <<MessageOf("a"), MessageOf("b")>>

\* C8: a mapping without a root entry, or a missing or non-object mapping,
\* yields the empty sequence and no exception.
C8_NoRootEmpty ==
    (pc = "extracted" /\ (arg.kind # "object" \/ "root" \notin DOMAIN arg.nodes)) =>
        (ret.messages = <<>> /\ ~ret.raised)

\* a mapping without root whose other node holds a message
C8_Witness ==
    /\ pc = "extracted"
    /\ arg.kind = "object"
    /\ "root" \notin DOMAIN arg.nodes
    /\ "a" \in DOMAIN arg.nodes
    /\ arg.nodes["a"].message # <<>>
    /\ ret.messages = <<>>

\* the loop of lines 245-251 runs on as long as its condition holds
SpecExtractFair == SpecExtract /\ WF_vars(ExtractNext)

\* the first-child chain from mapping.root.children[0] comes to an end: it
\* reaches an id without entry or a node without children
ChainEnds ==
    arg.kind = "object" =>
        \E path \in SeqsUpTo(Ids, Cardinality(Ids)) : IsFirstChildPath(arg.nodes, path)

\* C14: extractMessages returns exactly when the first-child chain from
\* mapping.root.children[0] reaches an id with no entry in the mapping or a
\* node with no children, and it returns there; on a chain that comes back
\* to a node it has visited the traversal never returns.
C14_ReturnsIffChainEnds ==
    /\ ChainEnds => <>(pc = "extracted")
    /\ ~ChainEnds => [](pc # "extracted")
    /\ []((pc = "extracted" /\ arg.kind = "object") =>
              (currentId = NoId \/ currentId \notin DOMAIN arg.nodes))

\* root -> a -> b -> a, a and b holding messages: the loop is still running
\* after it has collected each message twice
C14_Witness ==
    /\ pc = "extract_loop"
    /\ arg.kind = "object"
    /\ DOMAIN arg.nodes = Ids
    /\ arg.nodes["root"].children = <<"a">>
    /\ arg.nodes["a"].children = <<"b">>
    /\ arg.nodes["b"].children = <<"a", "root">>
    /\ messages = <<MessageOf("a"), MessageOf("b"), MessageOf("a"), MessageOf("b")>>

\* --------------------------------------------------- generateHTML, alone
FragmentPool ==
    {Fragment("REQUEST", <<"q">>), Fragment("OTHER", <<"r">>),
     Fragment("REQUEST", <<>>), Fragment("", <<"x">>)}

\* root -> a -> b, a holding m1 and b holding m2
ChainMapping(m1, m2) ==
    ObjectMapping([id \in Ids |->
        CASE id = "root" -> Node(<<>>, <<"a">>)
          [] id = "a" -> Node(<<m1>>, <<"b">>)
          [] OTHER -> Node(<<m2>>, <<>>)])

\* a conversation of two messages: the first cut fragments of fs, and the rest
SplitConversation(fs, cut, updated_at, at2) ==
    Conversation(<<"c">>, <<"t">>, At(1), updated_at,
                 ChainMapping(Message(At(1), SubSeq(fs, 1, cut)),
                              Message(at2, SubSeq(fs, cut + 1, Len(fs)))))

HTMLInit ==
    /\ pc = "render"
    /\ \E fs \in SeqsUpTo(FragmentPool, MaxFragments) :
       \E cut \in 0..Len(fs) :
       \E u \in {At(1), ObjectDate} :
       \E at2 \in {At(1), ObjectDate} :
           arg = SplitConversation(fs, cut, u, at2)
    /\ ret = [kind |-> "none", blocks |-> <<>>, total |-> 0, counted |-> 0]
    /\ RunIdle

GenerateHTMLCall ==
    /\ pc = "render"
    /\ ret' = generateHTML(arg, <<"0", "0", "1">>)
    /\ stats' = [stats EXCEPT !.totalMessages = @ + ret'.counted]
    /\ pc' = "rendered"
    /\ UNCHANGED <<arg, currentId, messages, input, conversations, i, dirCreated,
                   files, summary, indexHtml, exitCode>>

HTMLNext == GenerateHTMLCall

SpecHTML == HTMLInit /\ [][HTMLNext]_vars

\* the fragments of the conversation that generateHTML renders, in order
ArgFragments ==
    LET a == arg.mapping.nodes["a"].message[1].fragments
        b == arg.mapping.nodes["b"].message[1].fragments
    IN  SelectSeq(a \o b, Rendered)

RequestsBefore(j) == Cardinality({k \in 1..(j - 1) : ret.blocks[k].class = "request"})

\* C1: a response block directly after the block labelled "Request n" is
\* labelled "Response n".
C1_ResponsePairsWithRequest ==
    (pc = "rendered" /\ ret.kind = "page") =>
        \A j \in 1..(Len(ret.blocks) - 1) : \A n \in 1..(MaxFragments + 1) :
            (ret.blocks[j].headerText = headerText(TRUE, n)
             /\ ret.blocks[j + 1].class = "response")
                => ret.blocks[j + 1].headerText = headerText(FALSE, n)

\* C10: the counter starts at 1 and moves only after a rendered REQUEST
\* fragment: the k-th rendered request is "Request k"; a response is numbered
\* one more than the requests rendered before it, so "Response 1" before any
\* request, and the same number for responses with no request between them.
C10_CounterOnRequests ==
    (pc = "rendered" /\ ret.kind = "page") =>
        /\ Len(ret.blocks) = Len(ArgFragments)
        /\ \A j \in 1..Len(ret.blocks) :
               /\ ret.blocks[j].class =
                      (IF ArgFragments[j].type = "REQUEST" THEN "request" ELSE "response")
               /\ ret.blocks[j].headerText =
                      headerText(ret.blocks[j].class = "request", RequestsBefore(j) + 1)

\* a response before any request, then two requests, then two responses
C10_Witness ==
    /\ pc = "rendered"
    /\ ret.kind = "page"
    /\ Len(ret.blocks) >= 4
    /\ ret.blocks[1].headerText = headerText(FALSE, 1)
    /\ ret.blocks[2].headerText = headerText(TRUE, 1)
    /\ ret.blocks[3].headerText = headerText(TRUE, 2)
    /\ ret.blocks[4].class = "response"

\* ------------------------------------------------------ the run: formatAll
\* the input file: "missing" (fs.access rejects), "badjson" (JSON.parse
\* throws), "nonarray" (a JSON value that is no array) or "array"; verbose is
\* the --verbose option
FatalInputs ==
    {[kind |-> k, convs |-> <<>>, verbose |-> v] :
        k \in {"missing", "badjson", "nonarray"}, v \in BOOLEAN}

TwoMessages ==
    ChainMapping(Message(At(1), <<Fragment("REQUEST", <<"q">>)>>),
                 Message(At(1), <<Fragment("OTHER", <<"r">>)>>))

OneMessage ==
    ObjectMapping([id \in {"root", "a"} |->
        IF id = "root" THEN Node(<<>>, <<"a">>)
        ELSE Node(<<Message(At(1), <<Fragment("REQUEST", <<"q">>),
                                     Fragment("OTHER", <<"r">>)>>)>>, <<"b">>)])

\* root -> a -> a
CyclicMapping ==
    ObjectMapping([id \in {"root", "a"} |-> Node(<<>>, <<"a">>)])

EmptyMapping == ObjectMapping(<<>>)

RunPool ==
    {Conversation(<<"1">>, <<"a", "/", "b">>, At(1), At(2), TwoMessages),
     Conversation(<<"2">>, <<>>, Absent, Absent, NullMapping),
     Conversation(<<"3">>, <<"h", "i">>, At(1), Absent, EmptyMapping),
     Conversation(<<"4">>, <<>>, Absent, At(1), OneMessage),
     Conversation(<<"5">>, <<"h", "i">>, Absent, ObjectDate, OneMessage),
     Conversation(<<"6">>, <<"a", " ", " ", "b">>, Absent, InvalidDate, NonObjectMapping),
     Conversation(<<"7">>, <<"h", "i">>, At(2), Absent, NullMapping),
     Conversation(<<"8">>, <<"l", "o", "o", "p">>, At(1), Absent, CyclicMapping)}

Inputs ==
    FatalInputs
    \cup {[kind |-> "array", convs |-> cs, verbose |-> v] :
             cs \in SeqsUpTo(RunPool, MaxRun), v \in BOOLEAN}

Init ==
    /\ pc = "start"
    /\ input \in Inputs
    /\ arg = <<>>
    /\ ret = <<>>
    /\ currentId = NoId
    /\ messages = <<>>
    /\ conversations = <<>>
    /\ i = 0
    /\ stats = NoStats
    /\ dirCreated = FALSE
    /\ files = <<>>
    /\ summary = NoSummary
    /\ indexHtml = NoIndex
    /\ exitCode = -1

unitVars == <<arg, ret, currentId, messages>>

\* the validation without the Array.isArray check: a non-array value goes on
\* (its sort and its map fail inside their own try blocks)
passesValidationNoArrayCheck(in) == in.kind \in {"array", "nonarray"}

\* lines 27-39: the file exists, parses, and is an array
passesValidation(in) == in.kind = "array"

\* lines 62-68: the catch block of formatAll, on a rejected input
FormatAllFatal ==
    /\ pc = "start"
    /\ ~passesValidation(input)
    /\ pc' = "exited"
    /\ exitCode' = 1
    /\ UNCHANGED <<unitVars, input, conversations, i, stats, dirCreated, files,
                   summary, indexHtml>>

\* lines 42-48: sort, count, create the output directory; a rejected mkdir
\* ends in the catch block
FormatAllLoad ==
    /\ pc = "start"
    /\ passesValidation(input)
    /\ conversations' = sortConversationsByDate(input.convs).array
    /\ stats' = [stats EXCEPT !.totalConversations = Len(input.convs)]
    /\ i' = 0
    /\ \E mkdirOk \in BOOLEAN :
           IF mkdirOk
           THEN dirCreated' = TRUE /\ pc' = "loop" /\ exitCode' = exitCode
           ELSE dirCreated' = FALSE /\ pc' = "exited" /\ exitCode' = 1
    /\ UNCHANGED <<unitVars, input, files, summary, indexHtml>>

\* this.stats.totalMessages = messages.length
countMessagesLast(st, n) == [st EXCEPT !.totalMessages = n]

\* this.stats.totalMessages += messages.length
countMessages(st, n) == [st EXCEPT !.totalMessages = @ + n]

\* this.stats.processedFiles++ moved before the await of fs.writeFile
countOutcomeEarly(st, writeOk) ==
    [st EXCEPT !.processedFiles = @ + 1,
               !.errors = IF writeOk THEN @ ELSE @ + 1]

\* the counters once fs.writeFile has resolved (line 118) or rejected (line 124)
countOutcome(st, writeOk) ==
    [st EXCEPT !.processedFiles = IF writeOk THEN @ + 1 ELSE @,
               !.errors = IF writeOk THEN @ ELSE @ + 1]

\* lines 110-113: in verbose mode the progress line is built from
\* formatTimestamp(updated_at || inserted_at), which hands an object date back
\* as it is; the template literal then throws on it
ProgressLineThrows(verbose, conversation) ==
    verbose /\ DateOf(conversation).k = "object"

NoDocument == [kind |-> "none", blocks |-> <<>>, total |-> 0, counted |-> 0]

\* processConversation(conversations[i], i), one iteration of the loop of
\* lines 51-53; writeOk is whether fs.writeFile resolves
ProcessConversation ==
    /\ pc = "loop"
    /\ i < Len(conversations)
    /\ LET conversation == conversations[i + 1]
           fileNumber == fileNumberOf(i)
           fileName == writtenFileName(conversation, i)
           html == generateHTML(conversation, fileNumber)
       IN  IF ProgressLineThrows(input.verbose, conversation)
           THEN \* the catch block, before generateHTML is called
                /\ pc' = pc
                /\ i' = i + 1
                /\ files' = Append(files, [written |-> FALSE, name |-> fileName,
                                           body |-> NoDocument])
                /\ stats' = [stats EXCEPT !.errors = @ + 1]
           ELSE IF html.kind = "hang"
           THEN /\ pc' = "hung"
                /\ UNCHANGED <<i, stats, files>>
           ELSE \E writeOk \in BOOLEAN :
                /\ pc' = pc
                /\ i' = i + 1
                /\ files' = Append(files, [written |-> writeOk, name |-> fileName,
                                           body |-> html])
                /\ stats' = countOutcome(countMessages(stats, html.counted), writeOk)
    /\ UNCHANGED <<unitVars, input, conversations, dirCreated, summary, indexHtml,
                   exitCode>>

\* safeString of an object date throws inside conversations.map
SummaryThrows(convs) ==
    \E k \in 1..Len(convs) :
        convs[k].inserted_at.k = "object" \/ convs[k].updated_at.k = "object"

summaryEntries(convs) ==
    [k \in 1..Len(convs) |->
        [number |-> k,
         id |-> convs[k].id,
         title |-> convs[k].title,
         file |-> listedFileName(convs[k], k - 1),
         messageCount |-> Len(extractMessages(convs[k].mapping).messages)]]

indexRows(convs) ==
    [k \in 1..Len(convs) |->
        [number |-> k,
         href |-> listedFileName(convs[k], k - 1),
         messages |-> Len(extractMessages(convs[k].mapping).messages)]]

\* generateSummary(conversations) with its call of generateIndexHTML, then the
\* end of formatAll (lines 56-60)
GenerateSummary ==
    /\ pc = "loop"
    /\ i >= Len(conversations)
    /\ \E summaryOk \in BOOLEAN, indexOk \in BOOLEAN :
           LET wroteSummary == ~SummaryThrows(conversations) /\ summaryOk
               wroteIndex == wroteSummary /\ indexOk
           IN  /\ summary' =
                      IF wroteSummary
                      THEN [written |-> TRUE,
                            totalConversations |-> Len(conversations),
                            totalMessages |-> stats.totalMessages,
                            processedFiles |-> stats.processedFiles,
                            errors |-> stats.errors,
                            conversations |-> summaryEntries(conversations)]
                      ELSE summary
               /\ indexHtml' =
                      IF wroteIndex
                      THEN [written |-> TRUE, rows |-> indexRows(conversations)]
                      ELSE indexHtml
    /\ pc' = "done"
    /\ exitCode' = 0
    /\ UNCHANGED <<unitVars, input, conversations, i, stats, dirCreated, files>>

Next == FormatAllFatal \/ FormatAllLoad \/ ProcessConversation \/ GenerateSummary

Spec == Init /\ [][Next]_vars

\* the conversation processConversation is about to take, and what
\* generateHTML returns for it when the step reaches that call
Processing == pc = "loop" /\ i < Len(conversations)
Current == conversations[i + 1]
Renders == ~ProgressLineThrows(input.verbose, Current)
CurrentHTML == generateHTML(Current, fileNumberOf(i))

\* C2: processing a conversation whose generateHTML raises increments
\* stats.errors and produces the error page for it.
C2_RenderErrorCounted ==
    [][(Processing /\ Renders /\ CurrentHTML.kind = "error") =>
          /\ stats'.errors = stats.errors + 1
          /\ files'[i + 1].body.kind = "error"]_vars

\* C3: in a completed run, the file name summary.json records for a conversation
\* and the link target index.html gives it are the name of the file
\* processConversation wrote for it, titled or not.
C3_ListedNameIsWrittenName ==
    pc = "done" =>
        \A k \in 1..Len(files) :
            files[k].written =>
                /\ summary.written => summary.conversations[k].file = files[k].name
                /\ indexHtml.written => indexHtml.rows[k].href = files[k].name

\* The names do agree for every conversation that has a title.
ListedNameIsWrittenNameWhenTitled ==
    pc = "done" =>
        \A k \in 1..Len(files) :
            (files[k].written /\ conversations[k].title # <<>>) =>
                /\ summary.written => summary.conversations[k].file = files[k].name
                /\ indexHtml.written => indexHtml.rows[k].href = files[k].name

\* C6: processing a conversation whose mapping is null (and whose fields
\* otherwise render) adds nothing to totalMessages and renders a page with no
\* message; once fs.writeFile has resolved, processedFiles is one more and
\* errors is unchanged.
C6_NullMappingNotAnError ==
    [][(Processing /\ Current.mapping.kind = "null"
        /\ Current.inserted_at.k # "object" /\ Current.updated_at.k # "object") =>
          /\ stats'.totalMessages = stats.totalMessages
          /\ Len(files') = i + 1
          /\ files'[i + 1].body.kind = "page"
          /\ files'[i + 1].body.total = 0
          /\ files'[i + 1].body.blocks = <<>>
          /\ files'[i + 1].written =>
                 /\ stats'.processedFiles = stats.processedFiles + 1
                 /\ stats'.errors = stats.errors]_vars

\* a conversation with a null mapping was written after one with messages
C6_Witness ==
    /\ Len(files) = 2
    /\ conversations[2].mapping.kind = "null"
    /\ files[2].written
    /\ files[2].body.kind = "page"
    /\ stats.processedFiles = 2
    /\ stats.errors = 0
    /\ stats.totalMessages > 0

\* C9: with a missing input file, invalid JSON or a non-array value the run
\* ends with exit code 1 and nothing else: no conversation is processed, no
\* file is written, the output directory is not created.
C9_FatalInputAborts ==
    input.kind # "array" =>
        /\ pc \in {"start", "exited"}
        /\ pc = "exited" => exitCode = 1
        /\ pc = "start" => exitCode = -1
        /\ ~dirCreated
        /\ i = 0
        /\ files = <<>>
        /\ stats.processedFiles = 0
        /\ ~summary.written
        /\ ~indexHtml.written

C9_Witness ==
    /\ input.kind = "nonarray"
    /\ pc = "exited"
    /\ exitCode = 1
    /\ ~dirCreated

\* the step fails for the current conversation: the progress line or
\* generateHTML raises, or fs.writeFile rejects
FailsNow ==
    /\ Processing
    /\ \/ ~Renders
       \/ CurrentHTML.kind = "error"
       \/ (CurrentHTML.kind = "page" /\ Len(files') = i + 1 /\ ~files'[i + 1].written)

\* C13: a failure while rendering or writing one conversation adds exactly one
\* to stats.errors and nothing to stats.processedFiles, and the run goes on
\* with the next conversation in sort order without the fatal exit.
C13_FailureCountedRunGoesOn ==
    [][FailsNow =>
          /\ stats'.errors = stats.errors + 1
          /\ stats'.processedFiles = stats.processedFiles
          /\ pc' = "loop"
          /\ i' = i + 1
          /\ conversations' = conversations
          /\ exitCode' = exitCode]_vars

\* After such a failure the run does go on: the loop moves to the next
\* conversation and nothing exits.
FailureNeverAborts ==
    [][FailsNow =>
          /\ stats'.errors + stats'.processedFiles = stats.errors + stats.processedFiles + 1
          /\ pc' = "loop"
          /\ i' = i + 1
          /\ conversations' = conversations
          /\ exitCode' = exitCode]_vars

\* A run that reached the loop ends with exit code 0 or hangs in a cyclic
\* mapping; it never takes the fatal exit.
LoopNeverExitsFatally ==
    [][pc = "loop" => pc' \in {"loop", "hung", "done"} /\ exitCode' \in {exitCode, 0}]_vars

\* the conversations processConversation has returned for
Counted == stats.processedFiles + stats.errors

\* C15: each call of processConversation adds one to exactly one of
\* stats.processedFiles and stats.errors, so after k calls their sum is k, and
\* at the end of a run that did not exit fatally it is totalConversations.
C15_OneCounterPerConversation ==
    /\ [][(Processing /\ i' = i + 1) =>
             \/ /\ stats'.processedFiles = stats.processedFiles + 1
                /\ stats'.errors = stats.errors
             \/ /\ stats'.processedFiles = stats.processedFiles
                /\ stats'.errors = stats.errors + 1]_vars
    /\ [](pc \in {"loop", "hung", "done"} => Counted = i)
    /\ [](pc = "done" => Counted = stats.totalConversations)

\* a finished run of two conversations, one written and one failed
C15_Witness ==
    /\ pc = "done"
    /\ stats.totalConversations = MaxRun
    /\ stats.processedFiles >= 1
    /\ stats.errors >= 1

RECURSIVE SumMessageCounts(_)
SumMessageCounts(entries) ==
    IF entries = <<>> THEN 0
    ELSE Head(entries).messageCount + SumMessageCounts(Tail(entries))

\* C16: whenever summary.json is written, its totalMessages is the sum of the
\* messageCount fields of its entries.
C16_TotalIsSumOfCounts ==
    summary.written => summary.totalMessages = SumMessageCounts(summary.conversations)

\* a summary of several conversations with messages, the file of one of which
\* could not be written
C16_Witness ==
    /\ summary.written
    /\ Len(summary.conversations) > 1
    /\ \A k \in 1..Len(summary.conversations) : summary.conversations[k].messageCount > 0
    /\ \E k \in 1..Len(files) : ~files[k].written
    /\ summary.totalMessages > 1

\* ------------------------------------------------- sanitizeFilename, alone
TitleChars == {"a", "/", ":", " "}

RECURSIVE Repeat(_, _)
Repeat(ch, n) == IF n = 0 THEN <<>> ELSE <<ch>> \o Repeat(ch, n - 1)

\* titles: free characters at both ends of a run of letters that is empty or
\* brings the length to the cut of substring(0, 50)
PadLengths == {0} \cup ((MaxSlug - 3)..MaxSlug)

SanitizeInit ==
    /\ pc = "sanitize"
    /\ \E s1 \in SeqsUpTo(TitleChars, MaxTitle) :
       \E s2 \in SeqsUpTo(TitleChars, MaxTitle) :
       \E n \in PadLengths :
           arg = s1 \o Repeat("a", n) \o s2
    /\ ret = <<>>
    /\ RunIdle

SanitizeCall ==
    /\ pc = "sanitize"
    /\ ret' = sanitizeFilename(arg)
    /\ pc' = "sanitized"
    /\ UNCHANGED <<arg, runVars>>

SanitizeNext == SanitizeCall

SpecSanitize == SanitizeInit /\ [][SanitizeNext]_vars

Forbidden == ReservedChars \cup WhitespaceChars

\* position k of s is not whitespace following whitespace
IsRunStart(s, k) == ~(s[k] \in WhitespaceChars /\ k > 1 /\ s[k - 1] \in WhitespaceChars)

\* the number of such positions up to k
Rank(s, k) == Cardinality({j \in 1..k : IsRunStart(s, j)})

\* C11: of a string title, sanitizeFilename returns at most 50 characters,
\* none of them < > : " / \ | ? * or whitespace: each such character and each
\* whitespace run of the title stands replaced by one underscore, every other
\* character is kept, and the result is cut at 50.
C11_SanitizedSlug ==
    (pc = "sanitized" /\ arg # <<>>) =>
        /\ Len(ret) <= MaxSlug
        /\ \A k \in 1..Len(ret) : ret[k] \notin Forbidden
        /\ Len(ret) = (IF Rank(arg, Len(arg)) < MaxSlug THEN Rank(arg, Len(arg)) ELSE MaxSlug)
        /\ \A k \in 1..Len(arg) :
               (IsRunStart(arg, k) /\ Rank(arg, k) <= MaxSlug) =>
                   ret[Rank(arg, k)] = (IF arg[k] \in Forbidden THEN "_" ELSE arg[k])

\* a title with /, : and a whitespace run, longer than 50 after the replacements
C11_Witness ==
    /\ pc = "sanitized"
    /\ \E k \in 1..Len(arg) : arg[k] = "/"
    /\ \E k \in 1..Len(arg) : arg[k] = ":"
    /\ \E k \in 1..(Len(arg) - 1) : arg[k] = " " /\ arg[k + 1] = " "
    /\ Rank(arg, Len(arg)) > MaxSlug
    /\ Len(ret) = MaxSlug
    /\ ret[1] = "_"

\* ------------------------------------------------------------ formatContent
Min(S) == CHOOSE x \in S : \A y \in S : x <= y

Max(S) == CHOOSE x \in S : \A y \in S : y <= x

\* pat stands in s at position p
HasAt(s, p, pat) == p >= 1 /\ p + Len(pat) - 1 <= Len(s) /\ SubSeq(s, p, p + Len(pat) - 1) = pat

\* the first position from "from" on where pat stands, 0 if none
IndexOf(s, pat, from) ==
    LET hits == {p \in from..Len(s) : HasAt(s, p, pat)}
    IN  IF hits = {} THEN 0 ELSE Min(hits)

\* the part of s after position p
From(s, p) == SubSeq(s, p + 1, Len(s))

RECURSIVE Flatten(_)
Flatten(ss) == IF ss = <<>> THEN <<>> ELSE Head(ss) \o Flatten(Tail(ss))

\* the map of escapeHtml
EntityOf(ch) ==
    CASE ch = "&" -> <<"&", "a", "m", "p", ";">>
      [] ch = "<" -> <<"&", "l", "t", ";">>
      [] ch = ">" -> <<"&", "g", "t", ";">>
      [] ch = "\"" -> <<"&", "q", "u", "o", "t", ";">>
      [] ch = "'" -> <<"&", "#", "0", "3", "9", ";">>
      [] OTHER -> <<ch>>

\* escapeHtml of a string; the empty string is falsy and returns ''
escapeHtml(text) == Flatten([k \in 1..Len(text) |-> EntityOf(text[k])])

\* the escaping step left out
escapeNothing(text) == text

\* line 265
escapeContent(text) == escapeHtml(text)

\* the character U+0060, written by name
Backtick == "backtick"

Fence == <<Backtick, Backtick, Backtick>>
\* \w
WordChars ==
    {"a", "b", "c", "d", "e", "f", "g", "h", "i", "j", "k", "l", "m", "n", "o", 
    "p", "q", "r", "s", "t", "u", "v", "w", "x", "y", "z", "A", "B", "C", "D", "E", 
    "F", "G", "H", "I", "J", "K", "L", "M", "N", "O", "P", "Q", "R", "S", "T", "U", 
    "V", "W", "X", "Y", "Z", "0", "1", "2", "3", "4", "5", "6", "7", "8", "9", "_"}

\* /fence(\w+)?\n([\s\S]*?)fence/ tried at position 1 of s
CodeBlockMatch(s) ==
    LET rest == {k \in 4..Len(s) : s[k] \notin WordChars}
        nl == IF rest = {} THEN 0 ELSE Min(rest)
        close == IF nl = 0 THEN 0 ELSE IndexOf(s, Fence, nl + 1)
    IN  IF HasAt(s, 1, Fence) /\ nl # 0 /\ s[nl] = "\n" /\ close # 0
        THEN [ok |-> TRUE, code |-> SubSeq(s, nl + 1, close - 1), end |-> close + 2]
        ELSE [ok |-> FALSE, code |-> <<>>, end |-> 0]

RECURSIVE formatCodeBlocks(_)
formatCodeBlocks(s) ==
    IF s = <<>> THEN <<>>
    ELSE LET m == CodeBlockMatch(s)
         IN  IF m.ok
             THEN <<"<", "p", "r", "e", ">", "<", "c", "o", "d", "e", ">">> \o escapeHtml(Trim(m.code)) \o <<"<", "/", "c", "o", "d", "e", ">", "<", "/", "p", "r", "e", ">">>
                  \o formatCodeBlocks(From(s, m.end))
             ELSE <<Head(s)>> \o formatCodeBlocks(Tail(s))

\* the first position from "from" on holding ch, 0 if none
NextChar(s, ch, from) == IndexOf(s, <<ch>>, from)

\* open ([^d]+) close tried at position 1 of s, d the first character of close
DelimitedMatch(s, open, close) ==
    LET first == Len(open) + 1
        stop == NextChar(s, Head(close), first + 1)
    IN  IF HasAt(s, 1, open) /\ first <= Len(s) /\ s[first] # Head(close)
           /\ stop # 0 /\ HasAt(s, stop, close)
        THEN [ok |-> TRUE, inner |-> SubSeq(s, first, stop - 1), end |-> stop + Len(close) - 1]
        ELSE [ok |-> FALSE, inner |-> <<>>, end |-> 0]

\* s.replace(/open([^d]+)close/g, before $1 after)
RECURSIVE replaceDelimited(_, _, _, _, _)
replaceDelimited(s, open, close, before, after) ==
    IF s = <<>> THEN <<>>
    ELSE LET m == DelimitedMatch(s, open, close)
         IN  IF m.ok
             THEN before \o m.inner \o after
                  \o replaceDelimited(From(s, m.end), open, close, before, after)
             ELSE <<Head(s)>> \o replaceDelimited(Tail(s), open, close, before, after)

formatInlineCode(s) == replaceDelimited(s, <<Backtick>>, <<Backtick>>, <<"<", "c", "o", "d", "e", ">">>, <<"<", "/", "c", "o", "d", "e", ">">>)

\* the lines of s, split at \n
RECURSIVE SplitLines(_)
SplitLines(s) ==
    LET nl == NextChar(s, "\n", 1)
    IN  IF nl = 0 THEN <<s>>
        ELSE <<SubSeq(s, 1, nl - 1)>> \o SplitLines(From(s, nl))

RECURSIVE JoinLines(_)
JoinLines(ls) ==
    IF Len(ls) = 1 THEN ls[1]
    ELSE ls[1] \o <<"\n">> \o JoinLines(Tail(ls))

\* /^marker(.+)$/ on one line
replaceLine(line, marker, before, after) ==
    IF HasAt(line, 1, marker) /\ Len(line) > Len(marker)
    THEN before \o From(line, Len(marker)) \o after
    ELSE line

\* s.replace(/^marker(.+)$/gm, before $1 after)
replaceLines(s, marker, before, after) ==
    LET ls == SplitLines(s)
    IN  JoinLines([k \in 1..Len(ls) |-> replaceLine(ls[k], marker, before, after)])

formatHeaders(s) ==
    replaceLines(replaceLines(replaceLines(s,
        <<"#", "#", "#", " ">>, <<"<", "h", "4", ">">>, <<"<", "/", "h", "4", ">">>),
        <<"#", "#", " ">>, <<"<", "h", "3", ">">>, <<"<", "/", "h", "3", ">">>),
        <<"#", " ">>, <<"<", "h", "2", ">">>, <<"<", "/", "h", "2", ">">>)

formatBoldItalic(s) ==
    replaceDelimited(replaceDelimited(s, <<"*", "*">>, <<"*", "*">>, <<"<", "s", "t", "r", "o", "n", "g", ">">>, <<"<", "/", "s", "t", "r", "o", "n", "g", ">">>),
        <<"*">>, <<"*">>, <<"<", "e", "m", ">">>, <<"<", "/", "e", "m", ">">>)

Li == <<"<", "l", "i", ">">>
EndLi == <<"<", "/", "l", "i", ">">>

\* <li>.*<\/li>\n? tried at position q of s: the last position matched, 0 if none
ListItemEnd(s, q) ==
    LET nl == NextChar(s, "\n", q)
        eol == IF nl = 0 THEN Len(s) ELSE nl - 1
        ends == {r \in (q + Len(Li))..eol : HasAt(s, r, EndLi) /\ r + Len(EndLi) - 1 <= eol}
        last == Max(ends) + Len(EndLi) - 1
    IN  IF ~HasAt(s, q, Li) \/ ends = {} THEN 0
        ELSE IF last < Len(s) /\ s[last + 1] = "\n" THEN last + 1
        ELSE last

\* (<li>.*<\/li>\n?)+ from position q on, one item already matched up to "matched"
RECURSIVE ListRunEnd(_, _)
ListRunEnd(s, matched) ==
    LET more == ListItemEnd(s, matched + 1)
    IN  IF more = 0 THEN matched ELSE ListRunEnd(s, more)

RECURSIVE wrapLists(_)
wrapLists(s) ==
    IF s = <<>> THEN <<>>
    ELSE LET first == ListItemEnd(s, 1)
         IN  IF first # 0
             THEN LET end == ListRunEnd(s, first)
                  IN  <<"<", "u", "l", ">">> \o SubSeq(s, 1, end) \o <<"<", "/", "u", "l", ">">> \o wrapLists(From(s, end))
             ELSE <<Head(s)>> \o wrapLists(Tail(s))

formatLists(s) == wrapLists(replaceLines(s, <<"-", " ">>, Li, EndLi))

HrefOpen == <<"<", "a", " ", "h", "r", "e", "f", "=", "\"">>
HrefClose == <<"\"", " ", "t", "a", "r", "g", "e", "t", "=", "\"", "_", "b", "l", "a", "n", "k", "\"", ">">>

\* /\[([^\]]+)\]\(([^)]+)\)/ tried at position 1 of s
LinkMatch(s) ==
    LET text == DelimitedMatch(s, <<"[">>, <<"]", "(">>)
        stop == NextChar(s, ")", text.end + 2)
    IN  IF text.ok /\ text.end + 1 <= Len(s) /\ s[text.end + 1] # ")" /\ stop # 0
        THEN [ok |-> TRUE, text |-> text.inner, url |-> SubSeq(s, text.end + 1, stop - 1), end |-> stop]
        ELSE [ok |-> FALSE, text |-> <<>>, url |-> <<>>, end |-> 0]

RECURSIVE formatLinks(_)
formatLinks(s) ==
    IF s = <<>> THEN <<>>
    ELSE LET m == LinkMatch(s)
         IN  IF m.ok
             THEN HrefOpen \o m.url \o HrefClose \o m.text \o <<"<", "/", "a", ">">>
                  \o formatLinks(From(s, m.end))
             ELSE <<Head(s)>> \o formatLinks(Tail(s))

Br == <<"<", "b", "r", ">">>

formatLineBreaks(s) == Flatten([k \in 1..Len(s) |-> IF s[k] = "\n" THEN Br ELSE <<s[k]>>])

\* content values: a string, null, or a value that is not a string
StringContent(text) == [kind |-> "string", text |-> text]
NullContent == [kind |-> "null", text |-> <<>>]
NumberContent == [kind |-> "number", text |-> <<>>]

formatContent(content) ==
    IF content.kind # "string" \/ content.text = <<>> THEN <<>>
    ELSE formatLineBreaks(formatLinks(formatLists(formatBoldItalic(formatHeaders(
             formatInlineCode(formatCodeBlocks(escapeContent(content.text))))))))

\* --------------------------------------------------- formatContent, alone
ContentTokens ==
    {<<"&", "\"", "'">>,
     <<Backtick, Backtick, Backtick>>,
     <<Backtick, Backtick, Backtick, "\n">>,
     <<"\n">>,
     <<Backtick>>,
     <<"*", "*">>,
     <<"*">>,
     <<"<">>,
     <<">">>,
     <<"a">>,
     <<"#", " ">>,
     <<"#">>,
     <<"-", " ">>,
     <<"[", "a", "]", "(">>,
     <<")">>}

ContentPool ==
    {StringContent(Flatten(ts)) : ts \in SeqsUpTo(ContentTokens, MaxContent)}
        \cup {NullContent, NumberContent}

ContentInit ==
    /\ pc = "format"
    /\ arg \in ContentPool
    /\ ret = <<>>
    /\ RunIdle

FormatContentCall ==
    /\ pc = "format"
    /\ ret' = formatContent(arg)
    /\ pc' = "formatted"
    /\ UNCHANGED <<arg, runVars>>

ContentNext == FormatContentCall

SpecContent == ContentInit /\ [][ContentNext]_vars

\* the tags the rules of formatContent write
RendererTags ==
    {<<"<", "p", "r", "e", ">">>,
     <<"<", "/", "p", "r", "e", ">">>,
     <<"<", "c", "o", "d", "e", ">">>,
     <<"<", "/", "c", "o", "d", "e", ">">>,
     <<"<", "h", "2", ">">>,
     <<"<", "/", "h", "2", ">">>,
     <<"<", "h", "3", ">">>,
     <<"<", "/", "h", "3", ">">>,
     <<"<", "h", "4", ">">>,
     <<"<", "/", "h", "4", ">">>,
     <<"<", "s", "t", "r", "o", "n", "g", ">">>,
     <<"<", "/", "s", "t", "r", "o", "n", "g", ">">>,
     <<"<", "e", "m", ">">>,
     <<"<", "/", "e", "m", ">">>,
     <<"<", "l", "i", ">">>,
     <<"<", "/", "l", "i", ">">>,
     <<"<", "u", "l", ">">>,
     <<"<", "/", "u", "l", ">">>,
     <<"<", "/", "a", ">">>,
     <<"<", "b", "r", ">">>,
     HrefOpen, HrefClose}

\* s without the renderer's tags, read from the left
RECURSIVE StripTags(_)
StripTags(s) ==
    IF s = <<>> THEN <<>>
    ELSE LET here == {t \in RendererTags : HasAt(s, 1, t)}
         IN  IF here # {}
             THEN StripTags(From(s, Len(CHOOSE t \in here : TRUE)))
             ELSE <<Head(s)>> \o StripTags(Tail(s))

\* s holds no character of chars
NoneOf(s, chars) == \A k \in 1..Len(s) : s[k] \notin chars

Count(s, pat) == Cardinality({p \in 1..Len(s) : HasAt(s, p, pat)})

\* C12: formatContent escapes & < > " ' of the input before the markdown
\* rules run: every < and > of the input stands in the output as an entity,
\* outside the tags the rules wrote the output holds no literal < > " ', and
\* null or a value that is not a string gives the empty string.
C12_EscapedBeforeRules ==
    pc = "formatted" =>
        IF arg.kind # "string" THEN ret = <<>>
        ELSE /\ NoneOf(StripTags(ret), {"<", ">", "\"", "'"})
             /\ Count(ret, <<"l", "t", ";">>) = Count(arg.text, <<"<">>)
             /\ Count(ret, <<"g", "t", ";">>) = Count(arg.text, <<">">>)

\* a < of the input inside markup that a rule turned into tags
C12_Witness ==
    /\ pc = "formatted"
    /\ arg.kind = "string"
    /\ Count(arg.text, <<"<">>) > 0
    /\ Count(ret, <<"<", "c", "o", "d", "e", ">">>) > 0
    /\ Count(ret, <<"l", "t", ";">>) > 0

====
